---- MODULE Spec2Model ----
(***************************************************************************)
(* Model of frontend/src/editor/automerge_websocket_editor.ts:             *)
(* the hook useAutomergeWebsocketEditor, its inbound handler onMessage,    *)
(* the effect that opens/closes the ReconnectingWebSocket and the outbound *)
(* callback editor.onDocChange.                                            *)
(*                                                                         *)
(* The CRDT engine (Automerge) is a collaborator.  A Document is modelled  *)
(* as its actor id and the set of changes in its history; a change is the  *)
(* pair (actor, seq) and is serialized as the two bytes <<actor, seq>>; a  *)
(* snapshot is the concatenation of the serialized changes.  A payload the *)
(* engine cannot decode is one of the wrong length.                        *)
(***************************************************************************)
EXTENDS Integers, Sequences, FiniteSets, TLC

\* ---------------------------------------------------------------- bounds
\* external events over the whole run: renders with a new url, runs of the
\* effect, message events and local edits
MaxEvents == 4

\* ------------------------------------------------------ program constants
Change                == 1   \* MessageSyncType.Change
ChangeBacklogComplete == 2   \* MessageSyncType.ChangeBacklogComplete
FullDoc               == 3   \* MessageSyncType.FullDoc

Null      == 0               \* wsRef.current === null
Undefined == 0 - 1           \* msg_data[0] of an empty message
Absent    == << >>           \* getLastLocalChange(doc) === undefined

RemoteActor == 9             \* actor id of another replica
InitActor(e) == 10 + e       \* random actor id drawn by Automerge.init()
LoadActor(k) == 20 + k       \* random actor id drawn by the k-th Automerge.load()

VARIABLES
  cur,      \* the editor returned by the latest render (useMemo)
  doc,      \* doc[e] = editor.doc of editor e
  wsRef,    \* wsRef.current: Null or a websocket
  active,   \* the websocket whose effect is mounted (listener registered), or Null
  effEd,    \* the editor captured by the closure of the mounted effect
  nws,      \* websockets constructed so far
  tpc,      \* position inside the effect cleanup: "idle" or "closing"
  connected,\* is the underlying socket of the active websocket connected
  pending,  \* onMessage invocations suspended at `await event.data.arrayBuffer()`;
            \* seen is editor.doc at the time of the message event (observation only)
  events,   \* external events so far
  calls,    \* number of invocations of onInitialSyncComplete
  sent,     \* log of wsRef.current.send(..) calls
  dropped,  \* local changes emitted while wsRef.current was null (observation only)
  nloads,   \* number of Automerge.load() calls so far
  last      \* the step taken last (observation only)

vars == <<cur, doc, wsRef, active, effEd, nws, tpc, connected, pending, events,
          calls, sent, dropped, nloads, last>>

\* ------------------------------------------------------------ CRDT engine
AutomergeInit(e) == [actor |-> InitActor(e), hist |-> {}]

getActorId(d) == d.actor

encodeChange(c) == <<c.actor, c.seq>>

decodeChangeOk(b) == Len(b) = 2

decodeChange(b) == [actor |-> b[1], seq |-> b[2]]

applyChanges(d, b) == [d EXCEPT !.hist = @ \cup {decodeChange(b)}]

\* variant: undecodable bytes are not rejected
loadOk_Lax(b) == TRUE

loadOk(b) == Len(b) % 2 = 0

load(b, a) ==
  [actor |-> a,
   hist  |-> {[actor |-> b[2 * i - 1], seq |-> b[2 * i]] : i \in 1..(Len(b) \div 2)}]

OwnSeqs(d) == {c.seq : c \in {x \in d.hist : x.actor = d.actor}}

MaxOf(S) == CHOOSE m \in S : \A n \in S : n <= m

getLastLocalChange(d) ==
  IF OwnSeqs(d) = {} THEN Absent
  ELSE encodeChange([actor |-> d.actor, seq |-> MaxOf(OwnSeqs(d))])

NextSeq(d) == IF OwnSeqs(d) = {} THEN 1 ELSE MaxOf(OwnSeqs(d)) + 1

change(d) == [d EXCEPT !.hist = @ \cup {[actor |-> d.actor, seq |-> NextSeq(d)]}]

\* ------------------------------------------------------------ the handler
slice1(data) == IF Len(data) = 0 THEN << >> ELSE Tail(data)

msgType(data) == IF Len(data) = 0 THEN Undefined ELSE data[1]

IsChange(t) == t = Change

\* variant: the comparison is >= instead of ===
IsBacklogComplete_Ge(t) == t >= ChangeBacklogComplete

IsBacklogComplete(t) == t = ChangeBacklogComplete

\* variant: every tag from FullDoc upwards is taken as FullDoc
IsFullDoc_Ge(t) == t >= FullDoc

IsFullDoc(t) == t = FullDoc

\* variant: the wrong field of the decoded change is compared
IsOwnChange_WrongField(msg, d) == decodeChange(msg).seq = getActorId(d)

IsOwnChange(msg, d) == decodeChange(msg).actor = getActorId(d)

\* variant: the Document is replaced by one that holds the received change only
onChange_Replace(d, msg) == [d EXCEPT !.hist = {decodeChange(msg)}]

onChange(d, msg) == applyChanges(d, msg)

\* variant: the snapshot is merged into the held Document instead of replacing it
onFullDoc_Merge(d, msg, a) == [d EXCEPT !.hist = @ \cup load(msg, a).hist]

onFullDoc(d, msg, a) == load(msg, a)

\* variant: the handler keeps the Document it saw when the message event came
heldDoc_AtArrival(h) == h.seen

\* editor.doc as read by the handler h when it resumes after the await
heldDoc(h) == doc[h.ed]

\* editor.setDoc(newDoc) of editor e: replaces the Document held by the editor
setDoc(e, newDoc) == [doc EXCEPT ![e] = newDoc]

\* the editor surface invokes onDocChange on a programmatic replacement too
NotifyOnSetDoc == TRUE

\* variant: a ChangeBacklogComplete frame counts only when its payload is empty
Branch_RequireEmpty(data, d) ==
  LET t == msgType(data)
      msg == slice1(data)
  IN  IF IsChange(t)
        THEN IF ~decodeChangeOk(msg) THEN "throw"
             ELSE IF IsOwnChange(msg, d) THEN "skip" ELSE "apply"
      ELSE IF IsBacklogComplete(t) /\ Len(msg) = 0 THEN "complete"
      ELSE IF IsFullDoc(t)
        THEN IF ~loadOk(msg) THEN "throw" ELSE "load"
      ELSE "ignore"

\* what the handler does with one message, as a branch name
Branch(data, d) ==
  LET t == msgType(data)
      msg == slice1(data)
  IN  IF IsChange(t)
        THEN IF ~decodeChangeOk(msg) THEN "throw"
             ELSE IF IsOwnChange(msg, d) THEN "skip" ELSE "apply"
      ELSE IF IsBacklogComplete(t) THEN "complete"
      ELSE IF IsFullDoc(t)
        THEN IF ~loadOk(msg) THEN "throw" ELSE "load"
      ELSE "ignore"

\* variant: the send does not test wsRef.current
onDocChange_NoHandleCheck(newDoc, cause) ==
  LET lastChange == getLastLocalChange(newDoc)
  IN  IF lastChange # Absent
        THEN Append(sent, [ws |-> wsRef, data |-> lastChange, cause |-> cause])
        ELSE sent

\* editor.onDocChange: the log of sends after a notification with newDoc
onDocChange(newDoc, cause) ==
  LET lastChange == getLastLocalChange(newDoc)
  IN  IF lastChange # Absent /\ wsRef # Null
        THEN Append(sent, [ws |-> wsRef, data |-> lastChange, cause |-> cause])
        ELSE sent

\* ----------------------------------------------------------------- frames
InboundFrames ==
  { << >>, <<99, RemoteActor, 1>>,
    <<ChangeBacklogComplete>>, <<ChangeBacklogComplete, 5>>,
    <<Change, RemoteActor, 1>>, <<Change, 7>>,
    <<FullDoc, RemoteActor, 1>>, <<FullDoc, 7>>,
    <<FullDoc, RemoteActor, 1, InitActor(1), 1>> }
  \cup { <<Change>> \o sent[i].data : i \in 1..Len(sent) }

RemoveAt(s, i) == SubSeq(s, 1, i - 1) \o SubSeq(s, i + 1, Len(s))

NoStep == [op |-> "init", data |-> << >>, ed |-> 0, ws |-> 0, branch |-> "none",
           notified |-> FALSE, seen |-> [actor |-> 0, hist |-> {}]]

\* ------------------------------------------------------------------- Init
Init ==
  /\ cur = 1
  /\ doc = [e \in 1..MaxEvents |-> AutomergeInit(e)]
  /\ wsRef = Null
  /\ active = Null
  /\ effEd = 1
  /\ nws = 0
  /\ tpc = "idle"
  /\ connected = FALSE
  /\ pending = << >>
  /\ events = 0
  /\ calls = 0
  /\ sent = << >>
  /\ dropped = {}
  /\ nloads = 0
  /\ last = NoStep

\* ---------------------------------------------------------------- actions
\* a render with a new url, once the effect of the previous render has run:
\* useMemo creates a new editor with a fresh Document
UrlChange ==
  /\ tpc = "idle"
  /\ active # Null
  /\ effEd = cur
  /\ events < MaxEvents
  /\ events' = events + 1
  /\ cur' = cur + 1
  /\ last' = [NoStep EXCEPT !.op = "render"]
  /\ UNCHANGED <<doc, wsRef, active, effEd, nws, tpc, connected, pending,
                 calls, sent, dropped, nloads>>

\* the effect body: new ReconnectingWebSocket, addEventListener, wsRef.current = ws
Start ==
  /\ tpc = "idle"
  /\ active = Null
  /\ events < MaxEvents
  /\ events' = events + 1
  /\ nws' = nws + 1
  /\ active' = nws + 1
  /\ wsRef' = nws + 1
  /\ effEd' = cur
  /\ connected' = TRUE
  /\ last' = [NoStep EXCEPT !.op = "start"]
  /\ UNCHANGED <<cur, doc, tpc, pending, calls, sent, dropped, nloads>>

\* variant: the cleanup closes the channel first and leaves the handle set
TeardownClear_CloseFirst ==
  /\ tpc = "idle"
  /\ active # Null
  /\ active' = Null
  /\ connected' = FALSE
  /\ tpc' = "closing"
  /\ last' = [NoStep EXCEPT !.op = "clear"]
  /\ UNCHANGED <<cur, doc, wsRef, effEd, nws, pending, events, calls,
                 sent, dropped, nloads>>

\* the effect cleanup, first statement: wsRef.current = null
TeardownClear ==
  /\ tpc = "idle"
  /\ active # Null
  /\ wsRef' = Null
  /\ tpc' = "closing"
  /\ last' = [NoStep EXCEPT !.op = "clear"]
  /\ UNCHANGED <<cur, doc, active, effEd, nws, connected, pending, events, calls,
                 sent, dropped, nloads>>

\* the effect cleanup, second statement: ws.close()
TeardownClose ==
  /\ tpc = "closing"
  /\ active' = Null
  /\ connected' = FALSE
  /\ tpc' = "idle"
  /\ last' = [NoStep EXCEPT !.op = "close"]
  /\ UNCHANGED <<cur, doc, wsRef, effEd, nws, pending, events, calls, sent, dropped, nloads>>

\* the transport loses its underlying socket
Disconnect ==
  /\ tpc = "idle"
  /\ active # Null
  /\ connected
  /\ connected' = FALSE
  /\ last' = [NoStep EXCEPT !.op = "disconnect"]
  /\ UNCHANGED <<cur, doc, wsRef, active, effEd, nws, tpc, pending, events, calls,
                 sent, dropped, nloads>>

\* variant: the editor of the session is re-created when the socket reconnects
Reconnect_Reset ==
  /\ tpc = "idle"
  /\ active # Null
  /\ ~connected
  /\ connected' = TRUE
  /\ doc' = [doc EXCEPT ![effEd] = AutomergeInit(effEd)]
  /\ last' = [NoStep EXCEPT !.op = "reconnect"]
  /\ UNCHANGED <<cur, wsRef, active, effEd, nws, tpc, pending, events, calls,
                 sent, dropped, nloads>>

\* the transport opens a new underlying socket
Reconnect ==
  /\ tpc = "idle"
  /\ active # Null
  /\ ~connected
  /\ connected' = TRUE
  /\ last' = [NoStep EXCEPT !.op = "reconnect"]
  /\ UNCHANGED <<cur, doc, wsRef, active, effEd, nws, tpc, pending, events, calls,
                 sent, dropped, nloads>>

\* a message event: the listener starts onMessage, which suspends at the await
Arrive(data) ==
  /\ tpc = "idle"
  /\ active # Null
  /\ connected
  /\ events < MaxEvents
  /\ pending' = Append(pending, [ws |-> active, ed |-> effEd, data |-> data,
                                  seen |-> doc[effEd]])
  /\ events' = events + 1
  /\ last' = [NoStep EXCEPT !.op = "arrive"]
  /\ UNCHANGED <<cur, doc, wsRef, active, effEd, nws, tpc, connected, calls, sent, dropped, nloads>>

\* onMessage resumes after the await and runs to its end
Process(i) ==
  LET h == pending[i]
      d == heldDoc(h)
      msg == slice1(h.data)
      b == Branch(h.data, d)
      newDoc == IF b = "apply" THEN onChange(d, msg)
                ELSE onFullDoc(d, msg, LoadActor(nloads))
      setsDoc == b \in {"apply", "load"}
  IN  /\ tpc = "idle"
      /\ pending' = RemoveAt(pending, i)
      /\ doc' = IF setsDoc THEN setDoc(h.ed, newDoc) ELSE doc
      /\ sent' = IF setsDoc /\ NotifyOnSetDoc
                   THEN onDocChange(newDoc, [kind |-> "frame", ws |-> h.ws,
                                             live |-> (h.ws = active)])
                   ELSE sent
      /\ calls' = IF b = "complete" THEN calls + 1 ELSE calls
      /\ nloads' = IF b = "load" THEN nloads + 1 ELSE nloads
      /\ last' = [op |-> "process", data |-> h.data, ed |-> h.ed, ws |-> h.ws,
                  branch |-> b, notified |-> (setsDoc /\ NotifyOnSetDoc),
                  seen |-> h.seen]
      /\ UNCHANGED <<cur, wsRef, active, effEd, nws, tpc, connected, events, dropped>>

\* a local edit in the current editor: Automerge.change, then the notification
LocalEdit ==
  LET newDoc == change(doc[cur])
  IN  /\ tpc = "idle"
      /\ events < MaxEvents
      /\ events' = events + 1
      /\ dropped' = IF wsRef = Null THEN dropped \cup {getLastLocalChange(newDoc)}
                               ELSE dropped
      /\ doc' = [doc EXCEPT ![cur] = newDoc]
      /\ sent' = onDocChange(newDoc, [kind |-> "local", ws |-> wsRef, live |-> TRUE])
      /\ last' = [NoStep EXCEPT !.op = "edit", !.ed = cur, !.ws = wsRef,
                                !.data = getLastLocalChange(newDoc),
                                !.notified = TRUE]
      /\ UNCHANGED <<cur, wsRef, active, effEd, nws, tpc, connected, pending,
                     calls, nloads>>

Next ==
  \/ UrlChange
  \/ Start
  \/ TeardownClear
  \/ TeardownClose
  \/ Disconnect
  \/ Reconnect
  \/ \E data \in InboundFrames : Arrive(data)
  \/ \E i \in 1..Len(pending) : Process(i)
  \/ LocalEdit

Spec == Init /\ [][Next]_vars

\* ------------------------------------------------------------- properties
\* the caller's view of the session: Synced once onInitialSyncComplete ran
SyncState == IF calls = 0 THEN "Uninitialized" ELSE "Synced"

\* the step just taken resumed onMessage for the frame last'.data
Processed == last'.op = "process"

TagOf(data) == IF Len(data) = 0 THEN Undefined ELSE data[1]

\* C1: a Change frame whose author is the replica identifier of the held
\* Document is dropped: the Document is unchanged, no document-changed
\* notification is raised, the callback is not invoked and nothing is sent.
C1_EchoDropped ==
  [][ (/\ Processed
       /\ Len(last'.data) = 3
       /\ last'.data[1] = Change
       /\ last'.data[2] = doc[last'.ed].actor)
      => (/\ doc' = doc
          /\ sent' = sent
          /\ calls' = calls
          /\ ~last'.notified) ]_vars

\* C1 witness: a local change was applied and sent, and its echo was processed
C1_Witness ==
  /\ last.op = "process"
  /\ Len(last.data) = 3
  /\ last.data[1] = Change
  /\ last.data[2] = doc[last.ed].actor
  /\ [actor |-> last.data[2], seq |-> last.data[3]] \in doc[last.ed].hist
  /\ \E i \in 1..Len(sent) : sent[i].data = Tail(last.data)

\* C2: over any sequence of inbound frames of one session the callback
\* onInitialSyncComplete is invoked exactly once, never a second time.
C2_AtMostOnce == calls <= 1

\* C3: only a step that processes a ChangeBacklogComplete frame (tag 2)
\* invokes onInitialSyncComplete, and processing a Change frame never changes
\* the sync state.
C3_OnlyBacklogCompleteSignals ==
  [][ /\ (calls' # calls => (Processed /\ TagOf(last'.data) = ChangeBacklogComplete))
      /\ ((Processed /\ TagOf(last'.data) = Change) => SyncState' = SyncState) ]_vars

\* C3 witness: the callback has run, and the frame processed last was a FullDoc
\* frame that was loaded without running it again
C3_Witness ==
  /\ calls = 1
  /\ last.op = "process"
  /\ TagOf(last.data) = FullDoc
  /\ last.branch = "load"

\* C4: processing a FullDoc frame with a decodable payload S makes the held
\* Document equal to load(S): its history is exactly the snapshot's, so nothing
\* of the prior Document survives that is not in S.
C4_SnapshotSupersedes ==
  [][ (/\ Processed
       /\ TagOf(last'.data) = FullDoc
       /\ loadOk(Tail(last'.data)))
      => (/\ doc'[last'.ed] = load(Tail(last'.data), LoadActor(nloads))
          /\ \A c \in doc[last'.ed].hist :
               c \in doc'[last'.ed].hist => c \in load(Tail(last'.data), 0).hist
          /\ \A e \in 1..MaxEvents : e # last'.ed => doc'[e] = doc[e]) ]_vars

\* C4 witness: editor 1 held a local edit that was never sent, and a snapshot
\* without that edit was loaded into it
C4_Witness ==
  /\ last.op = "process"
  /\ last.data = <<FullDoc, RemoteActor, 1>>
  /\ last.ed = 1
  /\ cur = 1
  /\ dropped # {}
  /\ sent = << >>
  /\ doc[1].hist = {[actor |-> RemoteActor, seq |-> 1]}

\* C5: processing a frame whose tag is outside {1,2,3} (or an empty message)
\* leaves every Document, the sync state and the ConnectionHandle unchanged,
\* invokes no callback, sends nothing and leaves the listener and the other
\* suspended handlers in place.
C5_UnknownTagIgnored ==
  [][ (Processed /\ TagOf(last'.data) \notin {Change, ChangeBacklogComplete, FullDoc})
      => (/\ doc' = doc
          /\ calls' = calls
          /\ SyncState' = SyncState
          /\ wsRef' = wsRef
          /\ sent' = sent
          /\ ~last'.notified
          /\ active' = active
          /\ connected' = connected
          /\ Len(pending') = Len(pending) - 1) ]_vars

\* C5 witness: a frame with tag 99 was processed while another frame is still
\* to be processed
C5_Witness ==
  /\ last.op = "process"
  /\ TagOf(last.data) = 99
  /\ Len(pending) = 1
  /\ active # Null

\* C6: a local change emitted while the ConnectionHandle is absent is not sent
\* then and is not sent in any later state.
C6_DroppedNeverSent ==
  \A i \in 1..Len(sent) : sent[i].data \notin dropped

\* C7: every message sent for a local change c is a Change frame: decoding it
\* as the inbound handler does gives tag 1 and payload c.
C7_SentIsChangeFrame ==
  (last.op = "edit" /\ last.ws # Null)
    => (/\ Len(sent) > 0
        /\ msgType(sent[Len(sent)].data) = Change
        /\ slice1(sent[Len(sent)].data) = last.data)

\* C8: each local change is sent at most once.
C8_SentAtMostOnce ==
  \A i, j \in 1..Len(sent) : i < j => sent[i].data # sent[j].data

\* C9: a transport disconnect or reconnect leaves every Document and the sync
\* state unchanged; the Document of an editor is replaced only by processing a
\* Change frame of another author, by processing a FullDoc frame, or by a
\* local edit in that editor.
C9_ReconnectKeepsDocument ==
  [][ /\ (last'.op \in {"disconnect", "reconnect"}
            => (doc' = doc /\ SyncState' = SyncState))
      /\ \A e \in 1..MaxEvents :
           doc'[e] # doc[e]
             => \/ (last'.op = "edit" /\ last'.ed = e)
                \/ /\ Processed
                   /\ last'.ed = e
                   /\ \/ TagOf(last'.data) = FullDoc
                      \/ /\ TagOf(last'.data) = Change
                         /\ Len(last'.data) = 3
                         /\ last'.data[2] # doc[e].actor ]_vars

\* C9 witness: the socket has just reconnected and the Document of the
\* session's editor still holds a local and a remote change
C9_Witness ==
  /\ last.op = "reconnect"
  /\ \E c \in doc[effEd].hist : c.actor = RemoteActor
  /\ \E c \in doc[effEd].hist : c.actor = doc[effEd].actor

\* C10: after teardown no handler of the torn-down session performs a send on
\* any channel.
C10_NoSendAfterTeardown ==
  \A i \in 1..Len(sent) : sent[i].cause.kind = "frame" => sent[i].cause.live

\* a frame that acts on the Document or on the callback when it is processed
Effective(data) ==
  \/ TagOf(data) = ChangeBacklogComplete
  \/ TagOf(data) = Change /\ Len(data) = 3
  \/ TagOf(data) = FullDoc /\ Len(data) % 2 = 1

\* C11: frames of one session take effect in arrival order: the frame that is
\* processed is never one that arrived after an effective frame of the same
\* session that is still waiting to be processed.
C11_ArrivalOrder ==
  [][ (Processed /\ Effective(last'.data))
      => \E i \in 1..Len(pending) :
           /\ pending[i].data = last'.data
           /\ pending[i].ws = last'.ws
           /\ pending' = RemoveAt(pending, i)
           /\ \A j \in 1..(i - 1) :
                pending[j].ws = last'.ws => ~Effective(pending[j].data) ]_vars

\* C12: processing a Change frame with payload c of another author replaces
\* the held Document D by applyChanges(D, [c]), leaves the other Documents
\* alone and does not invoke the sync-complete callback.
C12_RemoteChangeApplied ==
  [][ (/\ Processed
       /\ TagOf(last'.data) = Change
       /\ Len(last'.data) = 3
       /\ last'.data[2] # doc[last'.ed].actor)
      => (/\ doc'[last'.ed] = applyChanges(doc[last'.ed], Tail(last'.data))
          /\ \A e \in 1..MaxEvents : e # last'.ed => doc'[e] = doc[e]
          /\ calls' = calls) ]_vars

\* C12 witness: a remote change was merged into a Document that holds a local
\* change, and both are in it
C12_Witness ==
  /\ last.op = "process"
  /\ last.data = <<Change, RemoteActor, 1>>
  /\ [actor |-> RemoteActor, seq |-> 1] \in doc[last.ed].hist
  /\ \E c \in doc[last.ed].hist : c.actor = doc[last.ed].actor

\* C13: the ConnectionHandle never refers to a channel that teardown has
\* closed or is closing, and every send is issued on the channel of the
\* mounted session while no teardown is under way.
C13_TeardownOrdering ==
  [][ /\ (wsRef' # Null => (wsRef' = active' /\ tpc' = "idle"))
      /\ (sent' # sent
            => /\ Len(sent') = Len(sent) + 1
               /\ sent'[Len(sent')].ws = active
               /\ active # Null
               /\ tpc = "idle") ]_vars

\* C13 witness: a session that sent a change was torn down, and a local edit
\* made afterwards found no ConnectionHandle
C13_Witness ==
  /\ last.op = "edit"
  /\ nws >= 1
  /\ active = Null
  /\ wsRef = Null
  /\ Len(sent) >= 1
  /\ dropped # {}

\* C14: processing a Change or FullDoc frame whose payload the engine cannot
\* decode raises an error in that handler only: every Document, the sync state
\* and the ConnectionHandle are unchanged, nothing is sent, the listener stays
\* registered and the other suspended handlers stay in place.
C14_CorruptPayloadContained ==
  [][ (/\ Processed
       /\ \/ TagOf(last'.data) = Change /\ Len(last'.data) # 3
          \/ TagOf(last'.data) = FullDoc /\ Len(last'.data) % 2 = 0)
      => (/\ last'.branch = "throw"
          /\ doc' = doc
          /\ calls' = calls
          /\ SyncState' = SyncState
          /\ wsRef' = wsRef
          /\ sent' = sent
          /\ ~last'.notified
          /\ active' = active
          /\ connected' = connected
          /\ Len(pending') = Len(pending) - 1) ]_vars

\* C14 witness: a corrupt FullDoc frame was processed by a mounted session
\* whose Document is not empty, while a later frame is still to be processed
C14_Witness ==
  /\ last.op = "process"
  /\ last.data = <<FullDoc, 7>>
  /\ last.ws = active
  /\ doc[last.ed].hist # {}
  /\ Len(pending) = 1

\* C15: every send happens in a step that raised a document-changed
\* notification (a local edit, or a handler that replaced the Document), with
\* a live ConnectionHandle, and appends exactly one message to that handle:
\* the most recent local change of the notified Document.
C15_SingleOutboundPath ==
  [][ sent' # sent
      => (/\ last'.op \in {"edit", "process"}
          /\ last'.notified
          /\ wsRef # Null
          /\ wsRef' = wsRef
          /\ getLastLocalChange(doc'[last'.ed]) # Absent
          /\ Len(sent') = Len(sent) + 1
          /\ SubSeq(sent', 1, Len(sent)) = sent
          /\ sent'[Len(sent')].ws = wsRef
          /\ sent'[Len(sent')].data = getLastLocalChange(doc'[last'.ed])) ]_vars

\* C15 witness: the second of two local edits was sent
C15_Witness ==
  /\ last.op = "edit"
  /\ wsRef # Null
  /\ Len(sent) >= 1
  /\ sent[Len(sent)].cause.kind = "local"
  /\ sent[Len(sent)].data = <<doc[cur].actor, 2>>

\* C16: processing a ChangeBacklogComplete frame, whatever follows its tag,
\* leaves every Document and the ConnectionHandle unchanged and sends nothing;
\* it invokes the sync-complete callback once and the state is Synced.
C16_BacklogCompleteIsMilestone ==
  [][ (Processed /\ TagOf(last'.data) = ChangeBacklogComplete)
      => (/\ doc' = doc
          /\ wsRef' = wsRef
          /\ sent' = sent
          /\ ~last'.notified
          /\ nloads' = nloads
          /\ calls' = calls + 1
          /\ SyncState' = "Synced") ]_vars

\* C16 witness: a ChangeBacklogComplete frame with a byte after its tag was
\* processed while the Document was not empty
C16_Witness ==
  /\ last.op = "process"
  /\ last.data = <<ChangeBacklogComplete, 5>>
  /\ calls >= 1
  /\ doc[last.ed].hist # {}

\* C17: a Change frame is merged into the Document held when its handler
\* resumes: every change of that Document, a local edit made while the frame
\* was in flight included, is in the resulting Document, which holds the
\* received change as well and keeps its actor.
C17_InterleavedEditKept ==
  [][ (/\ Processed
       /\ TagOf(last'.data) = Change
       /\ Len(last'.data) = 3)
      => (/\ \A c \in doc[last'.ed].hist : c \in doc'[last'.ed].hist
          /\ doc'[last'.ed].actor = doc[last'.ed].actor
          /\ (last'.data[2] # doc[last'.ed].actor
                => [actor |-> last'.data[2], seq |-> last'.data[3]]
                     \in doc'[last'.ed].hist)) ]_vars

\* C17 witness: a remote change was merged, and the Document holds a local
\* change that it did not hold when the frame arrived
C17_Witness ==
  /\ last.op = "process"
  /\ last.data = <<Change, RemoteActor, 1>>
  /\ last.seen.actor = doc[last.ed].actor
  /\ [actor |-> RemoteActor, seq |-> 1] \in doc[last.ed].hist
  /\ \E c \in doc[last.ed].hist : c.actor = doc[last.ed].actor /\ c \notin last.seen.hist

====
